---- MODULE Spec2Model ----
(***************************************************************************)
(* A model of minilisp: the recursive-descent parser (src/src/parser.rs),  *)
(* the tree-walking evaluator (src/src/eval.rs) and the read-eval-print    *)
(* loop that threads one environment through successive evaluations        *)
(* (src/src/main.rs).                                                      *)
(*                                                                         *)
(* Abstractions:                                                           *)
(*  - the input of the parser is the token sequence `tokenize` produces;   *)
(*  - an f64 is an exact fraction <<n, d>> in lowest terms (d = 0 stands   *)
(*    for the IEEE infinities and NaN); rounding is not modelled;          *)
(*  - an error message is a record [msg, a] holding the message's fixed    *)
(*    text and the values formatted into it;                               *)
(*  - the evaluator additionally keeps a log of the evaluations it enters  *)
(*    and leaves; the log never influences a result.                       *)
(***************************************************************************)
EXTENDS Integers, Sequences, FiniteSets, TLC

VARIABLES env, prev, input, result, log, evals, running

vars == <<env, prev, input, result, log, evals, running>>

----------------------------------------------------------------------------
(* Bounds *)

\* number of lines the read-eval-print loop reads
MaxEvals == 3
\* longest token sequence handed to parse in SpecParse
MaxTokens == 5

----------------------------------------------------------------------------
(* data.rs: Expr *)

Symbol(s) == [k |-> "Symbol", v |-> s]
Number(n) == [k |-> "Number", v |-> n]
Bool(b) == [k |-> "Bool", v |-> b]
String(s) == [k |-> "String", v |-> s]
List(l) == [k |-> "List", v |-> l]
Func(params, body) == [k |-> "Func", v |-> [params |-> params, body |-> body]]

\* Result<Expr, String>
Ok(v) == [ok |-> TRUE, v |-> v]
Err(msg, a) == [ok |-> FALSE, v |-> [msg |-> msg, a |-> a]]

\* HashMap<String, Expr>: a function whose domain is the set of bound names
EmptyEnv == [n \in {} |-> Symbol("")]
EnvGet(e, s) == IF s \in DOMAIN e THEN Ok(e[s]) ELSE Err("Variable '{}' not found.", <<s>>)
EnvInsert(e, s, val) == [n \in (DOMAIN e) \cup {s} |-> IF n = s THEN val ELSE e[n]]

----------------------------------------------------------------------------
(* f64 as a fraction *)

Abs(i) == IF i < 0 THEN -i ELSE i
Sign(i) == IF i < 0 THEN -1 ELSE IF i > 0 THEN 1 ELSE 0

RECURSIVE Gcd(_, _)
Gcd(a, b) == IF b = 0 THEN a ELSE Gcd(b, a % b)

Frac(n, d) ==
    IF d = 0 THEN <<Sign(n), 0>>
    ELSE LET g == Gcd(Abs(n), Abs(d))
             s == IF d < 0 THEN -1 ELSE 1
         IN  <<s * (n \div g), s * (d \div g)>>

FAdd(a, b) == Frac(a[1] * b[2] + b[1] * a[2], a[2] * b[2])
FSub(a, b) == Frac(a[1] * b[2] - b[1] * a[2], a[2] * b[2])
FMul(a, b) == Frac(a[1] * b[1], a[2] * b[2])
FDiv(a, b) == Frac(a[1] * b[2], a[2] * b[1])
FNeg(a) == Frac(-a[1], a[2])
FGt(a, b) == a[2] # 0 /\ b[2] # 0 /\ a[1] * b[2] > b[1] * a[2]
FIsZero(a) == a[2] # 0 /\ a[1] = 0
FInt(i) == <<i, 1>>

----------------------------------------------------------------------------
(* parser.rs *)

\* the tokens that parse::<f64>() accepts, with their values
NumberTokens == {"0", "1", "2"}
ParseF64(token) == CASE token = "0" -> FInt(0) [] token = "1" -> FInt(1) [] token = "2" -> FInt(2)

\* the tokens that start and end with a double quote, with the text between
StringTokens == {"\"a\"", "\"b\""}
Unquote(token) == CASE token = "\"a\"" -> "a" [] token = "\"b\"" -> "b"

atom(token) ==
    IF token \in StringTokens THEN String(Unquote(token))
    ELSE IF token = "true" THEN Bool(TRUE)
    ELSE IF token = "false" THEN Bool(FALSE)
    ELSE IF token \in NumberTokens THEN Number(ParseF64(token))
    ELSE Symbol(token)

\* read_from_tokens returns the result and the tokens it left unread;
\* read_list is the `while` loop of the "(" arm
RECURSIVE read_from_tokens(_), read_list(_, _)
read_from_tokens(tokens) ==
    IF tokens = <<>> THEN [r |-> Err("Unexpected EOF", <<>>), rest |-> tokens]
    ELSE LET token == Head(tokens)
             rest == Tail(tokens)
         IN  IF token = "(" THEN read_list(<<>>, rest)
             ELSE IF token = ")"
                  THEN [r |-> Err("Unexpected closing parenthesis.", <<>>), rest |-> rest]
             ELSE [r |-> Ok(atom(token)), rest |-> rest]

read_list(list, tokens) ==
    IF tokens # <<>> /\ Head(tokens) # ")"
    THEN LET sub == read_from_tokens(tokens)
         IN  IF sub.r.ok THEN read_list(Append(list, sub.r.v), sub.rest) ELSE sub
    ELSE IF tokens = <<>>
         THEN [r |-> Err("Missing closing parenthesis.", <<>>), rest |-> tokens]
    ELSE [r |-> Ok(List(list)), rest |-> Tail(tokens)]

\* parse without the check for unread tokens
parse_first(tokens) == read_from_tokens(tokens).r

parse(tokens) ==
    LET res == read_from_tokens(tokens)
    IN  IF ~res.r.ok THEN res.r
        ELSE IF res.rest # <<>>
             THEN Err("Unexpected tokens after main expression.", <<>>)
        ELSE res.r

----------------------------------------------------------------------------
(* eval.rs: built-in operators *)

IsNumber(a) == a.k = "Number"
IsString(a) == a.k = "String"

\* args.iter().map(|arg| match arg { Number(n) => Ok(*n), _ => Err(..) }).collect()
CollectNums(op, args) ==
    IF \A i \in 1..Len(args) : IsNumber(args[i])
    THEN Ok([i \in 1..Len(args) |-> args[i].v])
    ELSE Err("Operator '{}' requires number arguments.", <<op>>)

\* concat that skips the arguments that are not strings (filter_map)
CollectStringsLenient(args) ==
    LET strings == SelectSeq(args, IsString)
    IN  Ok([i \in 1..Len(strings) |-> strings[i].v])

\* args.iter().map(|arg| match arg { String(s) => Ok(s), _ => Err(..) }).collect()
CollectStrings(args) ==
    IF \A i \in 1..Len(args) : IsString(args[i])
    THEN Ok([i \in 1..Len(args) |-> args[i].v])
    ELSE Err("'concat' requires string arguments.", <<>>)

ApplyF(op, a, b) ==
    CASE op = "+" -> FAdd(a, b)
      [] op = "*" -> FMul(a, b)
      [] op = "-" -> FSub(a, b)
      [] op = "/" -> FDiv(a, b)

\* nums.iter().fold(acc, |acc, &x| f(acc, x))
RECURSIVE Fold(_, _, _)
Fold(op, acc, nums) ==
    IF nums = <<>> THEN acc ELSE Fold(op, ApplyF(op, acc, Head(nums)), Tail(nums))

\* strings.concat()
RECURSIVE Concat(_)
Concat(strings) ==
    IF strings = <<>> THEN "" ELSE Head(strings) \o Concat(Tail(strings))

numeric_op(op, args, initial) ==
    LET nums == CollectNums(op, args)
    IN  IF ~nums.ok THEN nums
        ELSE IF op # "+" /\ op # "*" /\ nums.v = <<>>
             THEN Err("Operator '{}' requires at least one argument.", <<op>>)
        ELSE Ok(Number(Fold(op, initial, nums.v)))

\* the zero test without skip(1)
AnyZero(args) ==
    \E i \in 1..Len(args) : IsNumber(args[i]) /\ FIsZero(args[i].v)

\* args.iter().skip(1).any(|arg| matches!(arg, Number(n) if n == 0.0))
AnyTrailingZero(args) ==
    \E i \in 2..Len(args) : IsNumber(args[i]) /\ FIsZero(args[i].v)

Subtract(args) ==
    LET nums == CollectNums("-", args)
    IN  IF ~nums.ok THEN nums
        ELSE IF nums.v = <<>>
             THEN Err("Operator '-' requires at least one argument.", <<>>)
        ELSE IF Len(nums.v) = 1 THEN Ok(Number(FNeg(nums.v[1])))
        ELSE Ok(Number(Fold("-", nums.v[1], Tail(nums.v))))

Divide(args) ==
    IF AnyTrailingZero(args) THEN Err("Division by zero.", <<>>)
    ELSE LET nums == CollectNums("/", args)
         IN  IF ~nums.ok THEN nums
             ELSE IF nums.v = <<>>
                  THEN Err("Operator '/' requires at least one argument.", <<>>)
             ELSE Ok(Number(Fold("/", nums.v[1], Tail(nums.v))))

Greater(args) ==
    IF Len(args) # 2 THEN Err("'>' requires two arguments.", <<>>)
    ELSE IF IsNumber(args[1]) /\ IsNumber(args[2])
         THEN Ok(Bool(FGt(args[1].v, args[2].v)))
    ELSE Err("'>' requires number arguments.", <<>>)

ConcatOp(args) ==
    LET strings == CollectStrings(args)
    IN  IF ~strings.ok THEN strings ELSE Ok(String(Concat(strings.v)))

NotBuiltin == Err("Not a built-in operator", <<>>)

apply_builtin_op(op, args) ==
    CASE op = "+" -> numeric_op(op, args, FInt(0))
      [] op = "*" -> numeric_op(op, args, FInt(1))
      [] op = "-" -> Subtract(args)
      [] op = "/" -> Divide(args)
      [] op = ">" -> Greater(args)
      [] op = "concat" -> ConcatOp(args)
      [] OTHER -> NotBuiltin

----------------------------------------------------------------------------
(* eval.rs: the evaluator *)

(* The evaluator's state is [env, log, nf]: the environment it was handed,  *)
(* the log, and the number of the next procedure call.  Every evaluation   *)
(* is identified by the call it runs in (frame; 0 is the top level) and    *)
(* its position in that call's body (path: the list indexes that lead to   *)
(* it).  An operation returns [r, s]: its Result and the state it leaves.  *)

Enter(frame, path, expr, e) ==
    [ev |-> "enter", frame |-> frame, path |-> path, x |-> expr, env |-> e]
Exit(frame, path, r, e) ==
    [ev |-> "exit", frame |-> frame, path |-> path, x |-> r, env |-> e]
Call(frame, path, func, args, parent, e) ==
    [ev |-> "call", frame |-> frame, path |-> path,
     x |-> [func |-> func, args |-> args, parent |-> parent], env |-> e]

Logged(s, event) == [s EXCEPT !.log = Append(@, event)]

\* for (param_name, arg_value) in params.iter().zip(evaluated_args) { insert }
RECURSIVE BindParams(_, _, _)
BindParams(e, params, args) ==
    IF params = <<>> \/ args = <<>> THEN e
    ELSE BindParams(EnvInsert(e, Head(params), Head(args)), Tail(params), Tail(args))

eval_lambda(args) ==
    IF Len(args) # 2
    THEN Err("'lambda' requires a list of parameters and a body.", <<>>)
    ELSE IF args[1].k # "List"
         THEN Err("The first argument to 'lambda' must be a list of symbols.", <<>>)
    ELSE IF \E i \in 1..Len(args[1].v) : args[1].v[i].k # "Symbol"
         THEN Err("Lambda parameters must be symbols.", <<>>)
    ELSE Ok(Func([i \in 1..Len(args[1].v) |-> args[1].v[i].v], args[2]))

\* a derived environment that starts empty instead of as the caller's clone
DerivedEnvFresh(e, params, args) == BindParams(EmptyEnv, params, args)

\* let mut func_env = env.clone(); then one insert per parameter
DerivedEnv(e, params, args) == BindParams(e, params, args)

\* the body evaluated on the caller's own map: its bindings stay
AfterCallLeak(s, caller_env) == s

\* the call returns: func_env is dropped and env is the caller's again
AfterCall(s, caller_env) == [s EXCEPT !.env = caller_env]

RECURSIVE eval(_, _, _, _), eval_define(_, _, _, _), eval_if(_, _, _, _),
          apply_procedure(_, _, _, _, _), eval_args(_, _, _, _, _, _),
          apply_user(_, _, _, _, _), eval_args_all(_, _, _, _, _, _)

eval(expr, s, frame, path) ==
    LET s1 == Logged(s, Enter(frame, path, expr, s.env))
        res ==
            IF expr.k = "Symbol" THEN [r |-> EnvGet(s1.env, expr.v), s |-> s1]
            ELSE IF expr.k \in {"Number", "Bool", "String", "Func"}
                 THEN [r |-> Ok(expr), s |-> s1]
            ELSE IF expr.v = <<>> THEN [r |-> Ok(List(<<>>)), s |-> s1]
            ELSE LET first == Head(expr.v)
                     args == Tail(expr.v)
                 IN  IF first.k = "Symbol" /\ first.v = "define"
                     THEN eval_define(args, s1, frame, path)
                     ELSE IF first.k = "Symbol" /\ first.v = "lambda"
                          THEN [r |-> eval_lambda(args), s |-> s1]
                     ELSE IF first.k = "Symbol" /\ first.v = "if"
                          THEN eval_if(args, s1, frame, path)
                     ELSE apply_procedure(first, args, s1, frame, path)
    IN  [r |-> res.r, s |-> Logged(res.s, Exit(frame, path, res.r, res.s.env))]

\* define that keeps an existing binding (entry().or_insert())
eval_define_keep(args, s, frame, path) ==
    IF Len(args) # 2
    THEN [r |-> Err("'define' requires a symbol and a value.", <<>>), s |-> s]
    ELSE IF args[1].k = "Symbol"
         THEN LET value == eval(args[2], s, frame, Append(path, 3))
              IN  IF ~value.r.ok THEN value
                  ELSE [r |-> Ok(Symbol(args[1].v)),
                        s |-> IF args[1].v \in DOMAIN value.s.env THEN value.s
                              ELSE [value.s EXCEPT !.env = EnvInsert(@, args[1].v, value.r.v)]]
    ELSE [r |-> Err("The first argument to 'define' must be a symbol.", <<>>), s |-> s]

\* define that binds the name to () before it evaluates the value
eval_define_predeclare(args, s, frame, path) ==
    IF Len(args) # 2
    THEN [r |-> Err("'define' requires a symbol and a value.", <<>>), s |-> s]
    ELSE IF args[1].k = "Symbol"
         THEN LET declared == [s EXCEPT !.env = EnvInsert(@, args[1].v, List(<<>>))]
                  value == eval(args[2], declared, frame, Append(path, 3))
              IN  IF ~value.r.ok THEN value
                  ELSE [r |-> Ok(Symbol(args[1].v)),
                        s |-> [value.s EXCEPT !.env = EnvInsert(@, args[1].v, value.r.v)]]
    ELSE [r |-> Err("The first argument to 'define' must be a symbol.", <<>>), s |-> s]

eval_define(args, s, frame, path) ==
    IF Len(args) # 2
    THEN [r |-> Err("'define' requires a symbol and a value.", <<>>), s |-> s]
    ELSE IF args[1].k = "Symbol"
         THEN LET value == eval(args[2], s, frame, Append(path, 3))
              IN  IF ~value.r.ok THEN value
                  ELSE [r |-> Ok(Symbol(args[1].v)),
                        s |-> [value.s EXCEPT !.env = EnvInsert(@, args[1].v, value.r.v)]]
    ELSE [r |-> Err("The first argument to 'define' must be a symbol.", <<>>), s |-> s]

\* if that evaluates both branches and then selects one result
eval_if_eager(args, s, frame, path) ==
    IF Len(args) # 3
    THEN [r |-> Err("'if' requires a condition, a then branch, and an else branch.", <<>>),
          s |-> s]
    ELSE LET cond == eval(args[1], s, frame, Append(path, 2))
             then == eval(args[2], cond.s, frame, Append(path, 3))
             else == eval(args[3], then.s, frame, Append(path, 4))
         IN  IF ~cond.r.ok THEN cond
             ELSE IF cond.r.v.k = "Bool"
                  THEN [r |-> IF cond.r.v.v THEN then.r ELSE else.r, s |-> else.s]
             ELSE [r |-> Err("The condition for 'if' must evaluate to a boolean.", <<>>),
                   s |-> cond.s]

eval_if(args, s, frame, path) ==
    IF Len(args) # 3
    THEN [r |-> Err("'if' requires a condition, a then branch, and an else branch.", <<>>),
          s |-> s]
    ELSE LET cond == eval(args[1], s, frame, Append(path, 2))
         IN  IF ~cond.r.ok THEN cond
             ELSE IF cond.r.v.k = "Bool"
                  THEN IF cond.r.v.v
                       THEN eval(args[2], cond.s, frame, Append(path, 3))
                       ELSE eval(args[3], cond.s, frame, Append(path, 4))
             ELSE [r |-> Err("The condition for 'if' must evaluate to a boolean.", <<>>),
                   s |-> cond.s]

\* operands all evaluated before the first error is returned
eval_args_all(args, i, done, s, frame, path) ==
    IF i > Len(args) THEN [r |-> Ok(done), s |-> s]
    ELSE LET a == eval(args[i], s, frame, Append(path, i + 1))
             rest == eval_args_all(args, i + 1,
                                   Append(done, IF a.r.ok THEN a.r.v ELSE List(<<>>)),
                                   a.s, frame, path)
         IN  IF ~a.r.ok THEN [r |-> a.r, s |-> rest.s] ELSE rest

\* args.iter().map(|arg| eval(arg, env)).collect::<Result<Vec<Expr>, String>>()
\* evaluates args[i..] in order and stops at the first error
eval_args(args, i, done, s, frame, path) ==
    IF i > Len(args) THEN [r |-> Ok(done), s |-> s]
    ELSE LET a == eval(args[i], s, frame, Append(path, i + 1))
         IN  IF ~a.r.ok THEN a
             ELSE eval_args(args, i + 1, Append(done, a.r.v), a.s, frame, path)

\* the second half of apply_procedure: evaluate op_expr and call the Func
apply_user(op_expr, evaluated_args, s, frame, path) ==
    LET evaluated_op == eval(op_expr, s, frame, Append(path, 1))
        s2 == evaluated_op.s
    IN  IF ~evaluated_op.r.ok THEN evaluated_op
        ELSE IF evaluated_op.r.v.k = "Func"
             THEN LET params == evaluated_op.r.v.v.params
                      body == evaluated_op.r.v.v.body
                  IN  IF Len(params) # Len(evaluated_args)
                      THEN [r |-> Err("Function expects {} arguments, but received {}.",
                                      <<Len(params), Len(evaluated_args)>>),
                            s |-> s2]
                      ELSE LET func_env == DerivedEnv(s2.env, params, evaluated_args)
                               callee == s2.nf
                               s3 == [env |-> func_env,
                                      log |-> Append(s2.log,
                                                 Call(callee, path, evaluated_op.r.v,
                                                      evaluated_args, frame, s2.env)),
                                      nf |-> callee + 1]
                               ret == eval(body, s3, callee, <<>>)
                           IN  [r |-> ret.r, s |-> AfterCall(ret.s, s2.env)]
        ELSE [r |-> Err("Not a function: {}", <<op_expr>>), s |-> s2]

\* a symbol the environment binds is called before the built-ins are tried
apply_procedure_user_first(op_expr, args, s, frame, path) ==
    LET evaluated_args == eval_args(args, 1, <<>>, s, frame, path)
        builtin == IF op_expr.k = "Symbol" /\ op_expr.v \notin DOMAIN evaluated_args.s.env
                   THEN apply_builtin_op(op_expr.v, evaluated_args.r.v)
                   ELSE NotBuiltin
    IN  IF ~evaluated_args.r.ok THEN evaluated_args
        ELSE IF builtin # NotBuiltin THEN [r |-> builtin, s |-> evaluated_args.s]
        ELSE apply_user(op_expr, evaluated_args.r.v, evaluated_args.s, frame, path)

apply_procedure(op_expr, args, s, frame, path) ==
    LET evaluated_args == eval_args(args, 1, <<>>, s, frame, path)
        builtin == IF op_expr.k = "Symbol"
                   THEN apply_builtin_op(op_expr.v, evaluated_args.r.v)
                   ELSE NotBuiltin
    IN  IF ~evaluated_args.r.ok THEN evaluated_args
        ELSE IF builtin # NotBuiltin THEN [r |-> builtin, s |-> evaluated_args.s]
        ELSE apply_user(op_expr, evaluated_args.r.v, evaluated_args.s, frame, path)

\* a top-level call of eval on environment e
TopEval(expr, e) == eval(expr, [env |-> e, log |-> <<>>, nf |-> 1], 0, <<>>)

----------------------------------------------------------------------------
(* Input lines, as the token sequences tokenize produces *)

T(token) == <<token>>

RECURSIVE Flatten(_)
Flatten(parts) == IF parts = <<>> THEN <<>> ELSE Head(parts) \o Flatten(Tail(parts))

\* the tokens of "(" part ... part ")"
L(parts) == <<"(">> \o Flatten(parts) \o <<")">>

Lambda(params, body) == L(<<T("lambda"), L([i \in 1..Len(params) |-> T(params[i])]), body>>)
Define(name, value) == L(<<T("define"), T(name), value>>)
If(c, t, e) == L(<<T("if"), c, t, e>>)

LamFree == Lambda(<<>>, T("x"))
LamId == Lambda(<<"x">>, T("x"))
LamDefine == Lambda(<<>>, Define("x", T("2")))
LamDefineFail == Lambda(<<>>, L(<<T("+"), Define("x", T("2")), T("1")>>))
LamSelf == Lambda(<<"d">>, T("f"))
LamCallF == Lambda(<<"x">>, L(<<T("f")>>))
LamConst == Lambda(<<"a", "b">>, T("0"))
LamPlus == Lambda(<<"+">>, L(<<T("+"), T("1"), T("2")>>))
LamSum == Lambda(<<"a", "b", "c">>, L(<<T("+"), T("a"), T("c")>>))

Lambdas == {LamFree, LamId, LamDefine, LamDefineFail, LamSelf, LamCallF, LamConst}

AtomLines == {T("x"), T("f"), T("+"), T("1"), T("\"a\"")}

DefineLines ==
    {Define("x", e) : e \in {T("1"), T("2"), T("x"), T("y")}}
    \cup {Define("f", lam) : lam \in Lambdas}
    \cup {Define("+", T("1")),
          Define("+", LamConst),
          Define("x", L(<<T("+"), T("x"), T("1")>>)),
          Define("x", L(<<T("+"), Define("x", T("1")), T("\"a\"")>>)),
          Define("x", If(T("true"), Define("f", T("2")), T("0"))),
          L(<<T("define"), T("x")>>),
          L(<<T("define"), T("1"), T("2")>>)}

CallLines ==
    {L(<<T("f")>>),
     L(<<T("f"), T("1")>>),
     L(<<T("f"), T("1"), T("2")>>),
     L(<<T("f"), Define("x", T("2"))>>),
     L(<<L(<<T("f"), Define("x", T("1"))>>), T("0")>>),
     L(<<LamCallF, T("2")>>),
     L(<<T("+"), L(<<T("f")>>), L(<<LamCallF, T("2")>>)>>),
     L(<<LamSum, L(<<T("f")>>), Define("x", T("2")), L(<<T("f")>>)>>),
     L(<<LamPlus, T("f")>>),
     L(<<T("1"), T("y")>>),
     L(<<T("y"), T("1")>>),
     L(<<T("x"), T("1")>>),
     L(<<T("f"), T("y"), Define("x", T("1"))>>),
     L(<<T("f"), Define("x", T("1")), T("x")>>),
     L(<<T("lambda"), T("x"), T("x")>>),
     L(<<T("lambda"), L(<<T("1")>>), T("x")>>),
     L(<<T("lambda"), L(<<T("x")>>)>>),
     L(<<>>)}

IfLines ==
    {If(c, t, e) :
        c \in {T("true"), T("false"), T("1"), L(<<T(">"), T("x"), T("1")>>)},
        t \in {T("\"a\""), T("y"), Define("x", T("1"))},
        e \in {T("y"), Define("x", T("2"))}}
    \cup {L(<<T("if"), T("true"), T("1")>>)}

OperatorLines ==
    {L(<<T("+"), T("1"), T("2")>>),
     L(<<T("+"), T("x"), T("1")>>),
     L(<<T("+"), Define("x", T("1")), T("1")>>),
     L(<<T("+"), T("y"), Define("x", T("1"))>>),
     L(<<T("-"), T("x")>>),
     L(<<T("*"), T("x"), T("x")>>),
     L(<<T("/"), T("1"), T("x")>>),
     L(<<T("/"), T("x"), T("0")>>),
     L(<<T(">"), T("x"), T("1")>>),
     L(<<T("concat"), T("\"a\""), T("\"b\"")>>),
     L(<<T("concat"), T("x")>>)}

MalformedLines == {T("("), T(")"), <<"1", "2">>, <<"(", "+", "1", "2">>, <<"(", ")", ")">>}

Lines == AtomLines \cup DefineLines \cup CallLines \cup IfLines
         \cup OperatorLines \cup MalformedLines

----------------------------------------------------------------------------
(* main.rs: the read-eval-print loop *)

NoResult == [ok |-> FALSE, v |-> [msg |-> "", a |-> <<>>]]

Init ==
    /\ env = EmptyEnv
    /\ prev = EmptyEnv
    /\ input = <<>>
    /\ result = NoResult
    /\ log = <<>>
    /\ evals = 0
    /\ running = TRUE

\* one iteration of the loop on a non-blank line: parse, eval, print
\* (a blank line is skipped by `continue` and changes nothing)
ReadEvalPrint(line) ==
    /\ running
    /\ evals < MaxEvals
    /\ line # <<>>
    /\ LET parsed == parse(line)
       IN  IF parsed.ok
           THEN LET res == TopEval(parsed.v, env)
                IN  /\ result' = res.r
                    /\ env' = res.s.env
                    /\ log' = res.s.log
           ELSE /\ result' = parsed
                /\ env' = env
                /\ log' = <<>>
    /\ prev' = env
    /\ input' = line
    /\ evals' = evals + 1
    /\ UNCHANGED running

\* read_line returns 0: the loop ends
Eof ==
    /\ running
    /\ running' = FALSE
    /\ UNCHANGED <<env, prev, input, result, log, evals>>

Next == (\E line \in Lines : ReadEvalPrint(line)) \/ Eof

Spec == Init /\ [][Next]_vars

----------------------------------------------------------------------------
(* tests/integration_test.rs: parse and eval called as a library *)

\* longest argument list of a built-in operator call in SpecOps
MaxArgs == 3

ParseAlphabet == {"(", ")", "x", "1"}

RECURSIVE SeqsUpTo(_, _)
SeqsUpTo(S, n) ==
    IF n = 0 THEN {<<>>}
    ELSE LET shorter == SeqsUpTo(S, n - 1)
         IN  shorter \cup {Append(s, t) : s \in {q \in shorter : Len(q) = n - 1}, t \in S}

InitParse ==
    /\ env = EmptyEnv
    /\ prev = EmptyEnv
    /\ input \in SeqsUpTo(ParseAlphabet, MaxTokens)
    /\ result = NoResult
    /\ log = <<>>
    /\ evals = 0
    /\ running = TRUE

\* run_parse_error_test: parse(input)
ParseCall ==
    /\ evals = 0
    /\ result' = parse(input)
    /\ evals' = 1
    /\ UNCHANGED <<env, prev, input, log, running>>

NextParse == ParseCall

SpecParse == InitParse /\ [][NextParse]_vars

BuiltinOps == {"+", "-", "*", "/", ">", "concat"}
ArgTokens == {"0", "1", "2", "\"a\"", "true"}

OperatorCalls ==
    {<<"(", op>> \o args \o <<")">> : op \in BuiltinOps, args \in SeqsUpTo(ArgTokens, MaxArgs)}

InitOps ==
    /\ env = EmptyEnv
    /\ prev = EmptyEnv
    /\ input \in OperatorCalls
    /\ result = NoResult
    /\ log = <<>>
    /\ evals = 0
    /\ running = TRUE

\* run_eval_test: parse(input), then eval on a new environment
RunEval ==
    /\ evals = 0
    /\ LET parsed == parse(input)
       IN  IF parsed.ok
           THEN LET res == TopEval(parsed.v, EmptyEnv)
                IN  /\ result' = res.r
                    /\ env' = res.s.env
                    /\ log' = res.s.log
           ELSE /\ result' = parsed
                /\ UNCHANGED <<env, log>>
    /\ evals' = 1
    /\ UNCHANGED <<prev, input, running>>

NextOps == RunEval

SpecOps == InitOps /\ [][NextOps]_vars

----------------------------------------------------------------------------
(* Reading the log of the last top-level eval *)

Idx == 1..Len(log)

IsForm(expr, head) ==
    expr.k = "List" /\ expr.v # <<>> /\ Head(expr.v).k = "Symbol" /\ Head(expr.v).v = head

IsApplication(expr) ==
    /\ expr.k = "List"
    /\ expr.v # <<>>
    /\ ~(Head(expr.v).k = "Symbol" /\ Head(expr.v).v \in {"define", "lambda", "if"})

IsEnter(i) == log[i].ev = "enter"
IsCall(i) == log[i].ev = "call"

Enters(fr, p) == {i \in Idx : log[i].ev = "enter" /\ log[i].frame = fr /\ log[i].path = p}
Exits(fr, p) == {i \in Idx : log[i].ev = "exit" /\ log[i].frame = fr /\ log[i].path = p}
Entered(fr, p) == Enters(fr, p) # {}
EnterOf(fr, p) == CHOOSE i \in Enters(fr, p) : TRUE
ExitOf(fr, p) == CHOOSE i \in Exits(fr, p) : TRUE
Succeeded(fr, p) == Entered(fr, p) /\ log[ExitOf(fr, p)].x.ok
Failed(fr, p) == Entered(fr, p) /\ ~log[ExitOf(fr, p)].x.ok

\* the exits of the `define` forms that completed in frame fr
DefineExits(fr) ==
    {i \in Idx :
        /\ log[i].ev = "exit"
        /\ log[i].frame = fr
        /\ log[i].x.ok
        /\ IsForm(log[EnterOf(fr, log[i].path)].x, "define")}

\* those of them that define name
Defined(fr, name) ==
    {i \in DefineExits(fr) : log[EnterOf(fr, log[i].path)].x.v[2] = Symbol(name)}

SameBinding(e1, e2, name) ==
    /\ name \in DOMAIN e1 <=> name \in DOMAIN e2
    /\ name \in DOMAIN e1 => e1[name] = e2[name]

----------------------------------------------------------------------------
(* Properties of the evaluator (Spec) *)

\* C1: when a Func is applied, its body runs in the caller's environment of
\* the moment of the call with the parameters bound over it, and every
\* variable the body looks up that is neither a parameter nor defined by the
\* body itself resolves to the caller's binding at the call (an error when
\* the caller has none).
C1_CallSiteScoping ==
    \A i \in Idx : IsCall(i) =>
        LET callee == log[i].frame
            func == log[i].x.func.v
            caller_env == log[ExitOf(log[i].x.parent, Append(log[i].path, 1))].env
            local(name) == \E j \in 1..Len(func.params) : func.params[j] = name
        IN  /\ i + 1 \in Enters(callee, <<>>)
            /\ log[i + 1].x = func.body
            /\ \A name \in (DOMAIN log[i + 1].env) \cup (DOMAIN caller_env)
                              \cup {func.params[j] : j \in 1..Len(func.params)} :
                    IF local(name)
                    THEN \E j \in 1..Len(func.params) :
                            /\ func.params[j] = name
                            /\ \A m \in (j + 1)..Len(func.params) : func.params[m] # name
                            /\ name \in DOMAIN log[i + 1].env
                            /\ log[i + 1].env[name] = log[i].x.args[j]
                    ELSE SameBinding(log[i + 1].env, caller_env, name)
            /\ \A j \in Idx :
                    (/\ IsEnter(j)
                     /\ log[j].frame = callee
                     /\ log[j].x.k = "Symbol"
                     /\ ~local(log[j].x.v)
                     /\ \A d \in Defined(callee, log[j].x.v) : j < d)
                    => log[j + 1].x = EnvGet(caller_env, log[j].x.v)

\* the same Func was applied from two call sites that bind its free variable
\* differently, and each call returned its own call site's value
C1_Witness ==
    \E i, j \in Idx :
        /\ IsCall(i) /\ IsCall(j) /\ i < j
        /\ log[i].x.func = log[j].x.func
        /\ log[i].x.func.v.body = Symbol("x")
        /\ log[i].x.func.v.params = <<>>
        /\ "x" \in DOMAIN log[i].env /\ "x" \in DOMAIN log[j].env
        /\ log[i].env["x"] # log[j].env["x"]
        /\ log[ExitOf(log[i].frame, <<>>)].x = Ok(log[i].env["x"])
        /\ log[ExitOf(log[j].frame, <<>>)].x = Ok(log[j].env["x"])

\* the environment the caller holds once the operands of the application at
\* (fr, p) have been evaluated
AfterOperands(fr, p) ==
    LET app == EnterOf(fr, p)
        n == Len(log[app].x.v) - 1
    IN  IF n = 0 THEN log[app].env ELSE log[ExitOf(fr, Append(p, n + 1))].env

\* C2 as stated: after every application of a Func the caller's environment
\* equals the caller's environment just after the operands were evaluated.
C2_CallerEnvAsAfterOperands ==
    \A i \in Idx : IsCall(i) =>
        log[ExitOf(log[i].x.parent, log[i].path)].env
            = AfterOperands(log[i].x.parent, log[i].path)

\* C2 amended: after every application of a Func, whether the body succeeds
\* or fails, the caller's environment equals the caller's environment just
\* after the operands and the operator expression were evaluated; the
\* parameter bindings and the body's defines exist only in the derived
\* environment.
C2_CallerEnvPreserved ==
    \A i \in Idx : IsCall(i) =>
        LET fr == log[i].x.parent
            p == log[i].path
        IN  /\ Succeeded(fr, Append(p, 1))
            /\ log[ExitOf(fr, p)].env = log[ExitOf(fr, Append(p, 1))].env
            /\ log[ExitOf(fr, p)].x = log[ExitOf(log[i].frame, <<>>)].x

\* a call whose body defined x, while the caller's x is not what the body left
C2_Witness ==
    \E i \in Idx :
        /\ IsCall(i)
        /\ \E d \in Defined(log[i].frame, "x") :
              ~SameBinding(log[d].env, log[ExitOf(log[i].x.parent, log[i].path)].env, "x")

InputExpr == parse(input).v

\* C3 as stated: after a top-level (define s e) succeeds the result is
\* Symbol(s), the environment maps s to the value of e, and every other
\* binding is unchanged.
C3_OnlyNameChanges ==
    (evals >= 1 /\ parse(input).ok /\ IsForm(InputExpr, "define") /\ result.ok) =>
        LET name == InputExpr.v[2].v
        IN  /\ result = Ok(Symbol(name))
            /\ name \in DOMAIN env
            /\ env[name] = log[ExitOf(0, <<3>>)].x.v
            /\ \A n \in ((DOMAIN env) \cup (DOMAIN prev)) \ {name} : SameBinding(env, prev, n)

\* C3 amended: after a top-level (define s e) succeeds the result is
\* Symbol(s), the environment maps s to the value of e and every other
\* binding is as the evaluation of e left it (unchanged when e completes no
\* define); a binding the eval does not define again is kept, and a
\* top-level lookup of it made before any new define returns the kept value.
C3_DefinePersists ==
    evals >= 1 =>
        /\ (parse(input).ok /\ IsForm(InputExpr, "define") /\ result.ok) =>
              LET name == InputExpr.v[2].v
                  value == log[ExitOf(0, <<3>>)]
              IN  /\ result = Ok(Symbol(name))
                  /\ name \in DOMAIN env
                  /\ env[name] = value.x.v
                  /\ \A n \in ((DOMAIN env) \cup (DOMAIN value.env)) \ {name} :
                        SameBinding(env, value.env, n)
                  /\ DefineExits(0) \subseteq {Len(log)}
                        => \A n \in ((DOMAIN env) \cup (DOMAIN prev)) \ {name} :
                              SameBinding(env, prev, n)
        /\ \A name \in DOMAIN prev :
              /\ Defined(0, name) = {} => SameBinding(env, prev, name)
              /\ \A j \in Idx :
                    (/\ IsEnter(j)
                     /\ log[j].frame = 0
                     /\ log[j].x = Symbol(name)
                     /\ \A d \in Defined(0, name) : j < d)
                    => log[j + 1].x = Ok(prev[name])

\* a top-level define overwrote x while f stayed bound
C3_Witness ==
    /\ evals >= 2
    /\ parse(input).ok
    /\ IsForm(InputExpr, "define")
    /\ result = Ok(Symbol("x"))
    /\ "x" \in DOMAIN prev
    /\ "f" \in DOMAIN prev
    /\ env["x"] # prev["x"]
    /\ env["f"] = prev["f"]

\* the environment e after the top-level defines that completed up to log
\* position n
RECURSIVE Replay(_, _)
Replay(e, n) ==
    IF n = 0 THEN e
    ELSE LET before == Replay(e, n - 1)
         IN  IF n \in DefineExits(0)
             THEN LET expr == log[EnterOf(0, log[n].path)].x
                  IN  EnvInsert(before, expr.v[2].v, log[ExitOf(0, Append(log[n].path, 3))].x.v)
             ELSE before

\* C4: when a top-level eval (or the parse before it) fails, the environment
\* is the one before the call with exactly the bindings of the top-level
\* defines that completed before the error written over it; a failed or
\* malformed define and a parse error write nothing.
C4_ErrorKeepsCompletedDefines ==
    (evals >= 1 /\ ~result.ok) =>
        /\ env = Replay(prev, Len(log))
        /\ ~parse(input).ok => env = prev
        /\ (parse(input).ok /\ IsForm(InputExpr, "define")
                /\ DefineExits(0) = {}) => env = prev

\* an eval failed after a nested top-level define had completed
C4_Witness ==
    /\ evals >= 1
    /\ ~result.ok
    /\ parse(input).ok
    /\ IsForm(InputExpr, "define")
    /\ env # prev
    /\ Defined(0, "x") # {}

NonBooleanCondition == Err("The condition for 'if' must evaluate to a boolean.", <<>>)

\* C5: for every (if c t e) whose condition evaluates to a Bool exactly the
\* chosen branch is evaluated, right after the condition, and its result and
\* environment are those of the `if`; the other branch is never evaluated;
\* on a non-Bool condition neither branch is evaluated and the result is
\* NonBooleanCondition.
C5_IfShortCircuit ==
    \A i \in Idx : (IsEnter(i) /\ IsForm(log[i].x, "if") /\ Len(log[i].x.v) = 4) =>
        LET fr == log[i].frame
            p == log[i].path
            c == Append(p, 2)
            cond == log[ExitOf(fr, c)]
        IN  /\ i + 1 \in Enters(fr, c)
            /\ (cond.x.ok /\ cond.x.v.k = "Bool") =>
                  LET taken == Append(p, IF cond.x.v.v THEN 3 ELSE 4)
                      other == Append(p, IF cond.x.v.v THEN 4 ELSE 3)
                  IN  /\ ExitOf(fr, c) + 1 \in Enters(fr, taken)
                      /\ log[ExitOf(fr, c) + 1].env = cond.env
                      /\ ~Entered(fr, other)
                      /\ ExitOf(fr, p) = ExitOf(fr, taken) + 1
                      /\ log[ExitOf(fr, p)].x = log[ExitOf(fr, taken)].x
                      /\ log[ExitOf(fr, p)].env = log[ExitOf(fr, taken)].env
            /\ (cond.x.ok /\ cond.x.v.k # "Bool") =>
                  /\ ~Entered(fr, Append(p, 3))
                  /\ ~Entered(fr, Append(p, 4))
                  /\ log[ExitOf(fr, p)].x = NonBooleanCondition
                  /\ log[ExitOf(fr, p)].env = cond.env

\* a true condition, an unbound then-result avoided: the else branch is a
\* define that did not happen and the then branch's value is the result
C5_Witness ==
    /\ evals >= 1
    /\ parse(input).ok
    /\ IsForm(InputExpr, "if")
    /\ Len(InputExpr.v) = 4
    /\ log[ExitOf(0, <<2>>)].x = Ok(Bool(TRUE))
    /\ IsForm(InputExpr.v[4], "define")
    /\ result.ok
    /\ env = prev

\* C6: an application whose head is the bare symbol of a built-in operator
\* never evaluates the head and never calls a Func; when its operands
\* succeed its result is the built-in's result on their values, whatever the
\* environment binds the symbol to.
C6_BuiltinNotOverridable ==
    \A i \in Idx :
        (/\ IsEnter(i)
         /\ IsApplication(log[i].x)
         /\ Head(log[i].x.v).k = "Symbol"
         /\ Head(log[i].x.v).v \in BuiltinOps) =>
        LET fr == log[i].frame
            p == log[i].path
            n == Len(log[i].x.v) - 1
        IN  /\ ~Entered(fr, Append(p, 1))
            /\ \A j \in Idx : IsCall(j) => ~(log[j].x.parent = fr /\ log[j].path = p)
            /\ (\A j \in 1..n : Succeeded(fr, Append(p, j + 1))) =>
                  log[ExitOf(fr, p)].x =
                      apply_builtin_op(Head(log[i].x.v).v,
                                       [j \in 1..n |-> log[ExitOf(fr, Append(p, j + 1))].x.v])

\* `+` is bound to a Func where (+ 1 2) is evaluated, and the result is 3
C6_Witness ==
    \E i \in Idx :
        /\ IsEnter(i)
        /\ log[i].x = List(<<Symbol("+"), Number(FInt(1)), Number(FInt(2))>>)
        /\ "+" \in DOMAIN log[i].env
        /\ log[i].env["+"].k = "Func"
        /\ log[ExitOf(log[i].frame, log[i].path)].x = Ok(Number(FInt(3)))

\* C10: the operands of an application are evaluated left to right, each in
\* the environment the one before it left, and all before the operator
\* expression; when an operand fails no later operand and no operator is
\* evaluated and the application fails with that operand's error.
C10_OperandOrder ==
    \A i \in Idx : (IsEnter(i) /\ IsApplication(log[i].x)) =>
        LET fr == log[i].frame
            p == log[i].path
            n == Len(log[i].x.v) - 1
            operand(j) == Append(p, j + 1)
        IN  /\ n >= 1 => (i + 1 \in Enters(fr, operand(1)) /\ log[i + 1].env = log[i].env)
            /\ \A j \in 1..(n - 1) : Succeeded(fr, operand(j)) =>
                  LET e == ExitOf(fr, operand(j))
                  IN  e + 1 \in Enters(fr, operand(j + 1)) /\ log[e + 1].env = log[e].env
            /\ \A j \in 1..n : Failed(fr, operand(j)) =>
                  /\ \A m \in (j + 1)..n : ~Entered(fr, operand(m))
                  /\ ~Entered(fr, Append(p, 1))
                  /\ log[ExitOf(fr, p)].x = log[ExitOf(fr, operand(j))].x
                  /\ log[ExitOf(fr, p)].env = log[ExitOf(fr, operand(j))].env
            /\ Entered(fr, Append(p, 1)) =>
                  \A j \in 1..n : /\ Succeeded(fr, operand(j))
                                  /\ ExitOf(fr, operand(j)) < EnterOf(fr, Append(p, 1))

\* the first operand failed: the define after it did not happen and the
\* unbound operator was not reported
C10_Witness ==
    /\ evals >= 1
    /\ parse(input).ok
    /\ IsApplication(InputExpr)
    /\ Len(InputExpr.v) = 3
    /\ Head(InputExpr.v).k = "Symbol"
    /\ Head(InputExpr.v).v \notin DOMAIN prev
    /\ Head(InputExpr.v).v \notin BuiltinOps
    /\ IsForm(InputExpr.v[3], "define")
    /\ Failed(0, <<2>>)
    /\ result = log[ExitOf(0, <<2>>)].x
    /\ env = prev

----------------------------------------------------------------------------
(* Properties of parse (SpecParse) *)

IsParen(token) == token = "(" \/ token = ")"

\* number of "(" minus number of ")" among the first i tokens
RECURSIVE Depth(_, _)
Depth(tokens, i) ==
    IF i = 0 THEN 0
    ELSE Depth(tokens, i - 1)
         + (IF tokens[i] = "(" THEN 1 ELSE IF tokens[i] = ")" THEN -1 ELSE 0)

\* the lengths of the prefixes that are one complete expression
CompletePrefixes(tokens) ==
    {i \in 1..Len(tokens) :
        /\ tokens[1] # ")"
        /\ IF tokens[1] = "(" THEN Depth(tokens, i) = 0 /\ \A j \in 1..(i - 1) : Depth(tokens, j) > 0
           ELSE i = 1}

TrailingTokens == Err("Unexpected tokens after main expression.", <<>>)
MissingClosingParen == Err("Missing closing parenthesis.", <<>>)
UnexpectedClosingParen == Err("Unexpected closing parenthesis.", <<>>)
UnexpectedEof == Err("Unexpected EOF", <<>>)

\* C9: parse returns Ok exactly when the tokens are one complete expression
\* and nothing else; a complete first expression followed by more tokens
\* gives TrailingTokens; a first expression whose "(" is never closed gives
\* MissingClosingParen; ")" as the first token gives UnexpectedClosingParen;
\* UnexpectedEof is returned only for zero tokens.
C9_ParseOneExpression ==
    evals = 1 =>
        LET done == CompletePrefixes(input)
        IN  /\ result.ok <=> done = {Len(input)}
            /\ (\E i \in done : i < Len(input)) => result = TrailingTokens
            /\ (input # <<>> /\ input[1] = "(" /\ done = {}) => result = MissingClosingParen
            /\ (input # <<>> /\ input[1] = ")") => result = UnexpectedClosingParen
            /\ result = UnexpectedEof <=> input = <<>>

\* a complete list followed by a closing parenthesis was rejected as trailing
C9_Witness ==
    /\ evals = 1
    /\ Len(input) >= 3
    /\ input[1] = "("
    /\ input[Len(input)] = ")"
    /\ Len(input) - 1 \in CompletePrefixes(input)
    /\ result = TrailingTokens

----------------------------------------------------------------------------
(* Properties of the built-in operators (SpecOps) *)

CallOp == input[2]
CallArgs == [i \in 1..(Len(input) - 3) |-> atom(input[i + 2])]

WrongKind(op, a) == IF op = "concat" THEN ~IsString(a) ELSE ~IsNumber(a)
HasWrongKind == \E i \in 1..Len(CallArgs) : WrongKind(CallOp, CallArgs[i])

TypeError(op) ==
    CASE op \in {"+", "-", "*", "/"} -> Err("Operator '{}' requires number arguments.", <<op>>)
      [] op = ">" -> Err("'>' requires number arguments.", <<>>)
      [] op = "concat" -> Err("'concat' requires string arguments.", <<>>)

DivisionByZero == Err("Division by zero.", <<>>)
GreaterArity == Err("'>' requires two arguments.", <<>>)

ZeroAfterFirst == \E i \in 2..Len(CallArgs) : CallArgs[i] = Number(FInt(0))

\* C7 as stated: any argument of the wrong kind gives the operator's type
\* error, whatever the other arguments and the argument count are.
C7_TypeErrorAlways ==
    (evals = 1 /\ HasWrongKind) => result = TypeError(CallOp)

\* C7 amended: an argument of the wrong kind gives the operator's type error,
\* except that `/` with a zero among its trailing arguments gives
\* DivisionByZero and `>` with an argument count other than two gives its
\* arity error.
C7_TypeError ==
    (evals = 1 /\ HasWrongKind) =>
        IF CallOp = "/" /\ ZeroAfterFirst THEN result = DivisionByZero
        ELSE IF CallOp = ">" /\ Len(CallArgs) # 2 THEN result = GreaterArity
        ELSE result = TypeError(CallOp)

\* `/` with a non-number and no zero, three arguments, reports its type error
C7_Witness ==
    /\ evals = 1
    /\ CallOp = "/"
    /\ Len(CallArgs) = 3
    /\ HasWrongKind
    /\ IsNumber(CallArgs[3])
    /\ ~ZeroAfterFirst
    /\ result = TypeError("/")

\* C8: `/` on numbers fails with DivisionByZero whenever an argument after
\* the first is zero; a zero first argument alone and the one-argument call
\* return a Number.
C8_DivisionGuard ==
    (evals = 1 /\ CallOp = "/" /\ Len(CallArgs) >= 1 /\ ~HasWrongKind) =>
        IF ZeroAfterFirst THEN result = DivisionByZero
        ELSE result.ok /\ IsNumber(result.v)

\* a zero first argument and a zero last argument: the guard fires for the last
C8_Witness ==
    /\ evals = 1
    /\ CallOp = "/"
    /\ Len(CallArgs) = 3
    /\ ~HasWrongKind
    /\ CallArgs[1] = Number(FInt(0))
    /\ CallArgs[2] # Number(FInt(0))
    /\ CallArgs[3] = Number(FInt(0))
    /\ result = DivisionByZero

====
